---- MODULE Spec2Model ----
(***************************************************************************)
(* sockrpc: a JSON RPC runtime over an AF_UNIX stream socket.              *)
(*                                                                         *)
(* The model follows src/include/sockrpc/sockrpc.h (which carries the      *)
(* server: registry, accept thread, worker pool, lifecycle) and            *)
(* src/src/client.c (client channel).  Every thread of the program is a    *)
(* process with a position (mpc, apc, wpc, tpc); every blocking point of   *)
(* the code is a step boundary.                                            *)
(***************************************************************************)
EXTENDS Integers, Sequences, FiniteSets, TLC

(***************************************************************************)
(* Sizes.  The program's compile-time sizes are scaled down so that the    *)
(* boundary cases (a full registry, a request that fills the buffer) are   *)
(* reached within the explored state space.                                *)
(***************************************************************************)
\* #define MAX_METHODS 100, scaled
MAX_METHODS == 2
\* #define BUFFER_SIZE 4096 (server and client), scaled
BUFFER_SIZE == 7
\* #define NUM_WORKERS 4, scaled
NUM_WORKERS == 2
\* number of client objects; client c owns connection c
NumClients == 3
\* number of threads calling sockrpc_client_call_sync
NumThreads == 2
\* bytes a connection holds unread before a non-blocking write() fails
\* with EAGAIN, in the runs with a bounded socket buffer
SendBuffer == 2
\* longest params payload a caller builds
MaxParamLen == 2

Workers == 0 .. (NUM_WORKERS - 1)
Clients == 1 .. NumClients
Threads == 1 .. NumThreads
\* method names are numbered; one more than fits in the registry
Names == 1 .. (MAX_METHODS + 1)
\* the method names callers ask for
CallNames == {1, 2}

(***************************************************************************)
(* JSON values and the wire codec.  A value is an array of digits; NULL    *)
(* is the absent value (a null pointer), which no array equals.            *)
(***************************************************************************)
NULL == <<0>>
\* a NULL name argument
NoName == 0
LB == <<"[", 0>>
RB == <<"]", 0>>
LC == <<"{", 0>>
RC == <<"}", 0>>
Digit(d) == <<"d", d>>
NameByte(m) == <<"m", m>>

Repeat(b, n) == [i \in 1 .. n |-> b]
\* the params callers pass: two one-digit arrays and the longest one, whose
\* request fills the server's buffer
ParamValues == {<<1>>, <<2>>, Repeat(1, MaxParamLen)}

\* cJSON_Print of a value
cJSON_Print(v) == <<LB>> \o [i \in 1 .. Len(v) |-> Digit(v[i])] \o <<RB>>

\* the request object {method, params} as cJSON_Print writes it.  With a
\* NULL method cJSON_AddStringToObject adds no member (its result is not
\* examined) and the object holds params alone.
PrintRequest(m, p) ==
  IF m = NoName THEN <<LC>> \o cJSON_Print(p) \o <<RC>>
  ELSE <<LC, NameByte(m)>> \o cJSON_Print(p) \o <<RC>>

\* index of the "]" closing the array that opens at pos, 0 when the text
\* ends or a foreign byte comes first
CloseOf(buf, pos) ==
  IF pos > Len(buf) \/ buf[pos] # LB THEN 0
  ELSE LET ends == {j \in (pos + 1) .. Len(buf) :
                      /\ buf[j] = RB
                      /\ \A k \in (pos + 1) .. (j - 1) : buf[k][1] = "d"}
       IN IF ends = {} THEN 0 ELSE CHOOSE j \in ends : \A k \in ends : j <= k

\* cJSON_Parse of a value at the start of the text: the first complete
\* value is returned and bytes after it are ignored; NULL when there is none
cJSON_Parse(buf) ==
  LET j == CloseOf(buf, 1)
  IN IF j = 0 THEN NULL ELSE [i \in 1 .. (j - 2) |-> buf[i + 1][2]]

\* cJSON_Parse of a request object: [ok, method, params]; method is
\* NoName when the object parses and has no "method" member
ParseRequest(buf) ==
  LET j == CloseOf(buf, 3)
      k == CloseOf(buf, 2)
  IN IF /\ Len(buf) >= 1
        /\ buf[1] = LC
        /\ k # 0
        /\ k + 1 <= Len(buf)
        /\ buf[k + 1] = RC
     THEN [ok |-> TRUE, method |-> NoName,
           params |-> [i \in 1 .. (k - 3) |-> buf[i + 2][2]]]
     ELSE
     IF /\ Len(buf) >= 2
        /\ buf[1] = LC
        /\ buf[2][1] = "m"
        /\ j # 0
        /\ j + 1 <= Len(buf)
        /\ buf[j + 1] = RC
     THEN [ok |-> TRUE, method |-> buf[2][2],
           params |-> [i \in 1 .. (j - 4) |-> buf[i + 3][2]]]
     ELSE [ok |-> FALSE, method |-> 0, params |-> NULL]

\* what an rpc_handler returns for params: "echo" a copy of its input
\* (echo_handler), "own" the same from a handler that also frees params as
\* the documented contract asks, "const" a fixed value, "big" a value that
\* prints longer than BUFFER_SIZE, any other handler NULL
Apply(h, params) ==
  CASE h = "echo" -> params
    [] h = "own" -> params
    [] h = "const" -> <<>>
    [] h = "big" -> Repeat(1, BUFFER_SIZE)
    [] OTHER -> NULL

Min(a, b) == IF a < b THEN a ELSE b

(***************************************************************************)
(* State                                                                   *)
(***************************************************************************)
VARIABLES
  \* ---- struct sockrpc_server and the main thread
  mpc,          \* position of the thread that starts and destroys the server
  startCalled,  \* sockrpc_server_start has been called
  running,      \* server->running
  server_fd,    \* server->server_fd: 0 (calloc), -1, or the descriptor 3
  lsock,        \* state of the listening socket behind the descriptor
  file,         \* a socket file exists at server->socket_path
  methods,      \* server->methods[0 .. method_count-1]
  reg_mutex,    \* owner of server->mutex, Free when unlocked
  next_worker,  \* server->next_worker
  copies,       \* copies[k]: times the k-th strdup'ed method name was freed
  \* ---- registering threads
  rpc,          \* position of each thread inside sockrpc_server_register
  rarg,         \* arguments of its current (or last) register call
  nregs,        \* register calls issued so far
  lastReg,      \* per name: handler of the latest registration that has
                \* released server->mutex (NoHandler: none yet)
  regHist,      \* per name: every handler stored under it so far
  lateReg,      \* names first registered while the workers were running
                \* and a call was in flight
  \* ---- worker_context and worker threads
  wpc,          \* position of each worker thread
  num_connections, \* workers[w].num_connections
  epoll,        \* descriptors registered in workers[w].epoll_fd
  ready,        \* descriptors with an undelivered edge in workers[w].epoll_fd
  wq,           \* events returned by the last epoll_wait, still to handle
  wcur,         \* locals of handle_client_request
  \* ---- accept thread
  apc,          \* position of the accept thread
  acur,         \* its locals: client_fd and the selected worker
  backlog,      \* connections completed by connect(), not yet accepted
  naccepted,    \* connections accepted so far
  lb_mutex,     \* owner of server->lb_mutex, Free when unlocked
  wmutex,       \* owner of workers[w].mutex, Free when unlocked
  \* ---- connections (one per client object)
  sfd,          \* server side of connection c: none/queued/open/closed
  c2s,          \* bytes written by the client, not yet read by the server
  s2c,          \* bytes written by the server, not yet read by the client
  \* ---- struct sockrpc_client and calling threads
  cstate,       \* none / connected / unconnected (connect failed) /
                \* destroyed
  cmutex,       \* owner of client->mutex, 0 when unlocked
  tpc,          \* position of each calling thread in sockrpc_client_call_sync,
                \* and of a task thread in async_call_routine
  tcall,        \* method and params of its current (or last) call, how the
                \* request was built, the handler registered at the call,
                \* whether the call is made by an async task and whether
                \* that task has a callback
  tres,         \* value returned by its last call
  prel,         \* times the params of its current call were released
  tsent,        \* the whole request of the current call reached the socket
  ncalls,       \* calls issued so far
  \* ---- the scenario of one run, fixed by Init
  cfg,          \* see Scenario
  \* ---- descriptors and threads as sockrpc_server_destroy treats them
  misuse,       \* calls destroy made on a thread that was never created or
                \* on a descriptor the server does not hold: <<call, why>>
  epoll_fd,     \* per worker: workers[i].epoll_fd is "open" or "closed"
  \* ---- response bytes and the calls they belong to
  stale,        \* per connection: leading bytes of s2c that answer a call
                \* which has already returned
  tmix,         \* per thread: its last read took bytes of another call
  seg,          \* per thread: bytes of its request that the write() it is
                \* in has passed to the connection so far
  \* ---- sockrpc_client_call_async and async_call_routine
  async_pc,     \* per thread: its sockrpc_client_call_async is "none",
                \* "spawned" (task thread created and detached) or "returned"
  nasync,       \* async calls issued so far
  cbcount,      \* per task: times its callback was invoked
  resrel,       \* per task: times async_call_routine released the result
  taskfree,     \* per task: times data->method and data were freed
  late          \* what tasks did with a client after its
                \* sockrpc_client_destroy: <<thread, "mutex"/"socket"/"callback">>

srvVars == <<mpc, startCalled, running, server_fd, lsock, file, methods,
             reg_mutex, next_worker, copies>>
regVars == <<rpc, rarg, nregs, lastReg, regHist, lateReg>>
wrkVars == <<wpc, num_connections, epoll, ready, wq, wcur>>
accVars == <<apc, acur, backlog, naccepted, lb_mutex, wmutex>>
conVars == <<sfd, c2s, s2c>>
cliVars == <<cstate, cmutex, tpc, tcall, tres, prel, tsent, ncalls>>
envVars == <<cfg>>
fdVars == <<misuse, epoll_fd>>
ordVars == <<stale, tmix, seg>>
asyVars == <<async_pc, nasync, cbcount, resrel, taskfree, late>>
vars == <<srvVars, regVars, wrkVars, accVars, conVars, cliVars, envVars, fdVars,
          ordVars, asyVars>>

\* registering threads; Spec runs one, as the tests do
RegThreads == 1 .. 2
\* owners of server->mutex
Free == <<"free", 0>>
RegOwner(r) == <<"register", r>>
AcceptOwner == <<"acceptor", 0>>
WorkerOwner(w) == <<"worker", w>>
NoHandler == "NULL"
NoCall == [name |-> NoName, handler |-> NoHandler]
\* locals of handle_client_request, with what the request did so far:
\* known is the handler registered under the method when the request was
\* read, invoked and wrote count handler calls and bytes written, listed
\* tells whether the method table held (method, handler) when the handler
\* was invoked, freed and rfreed count the releases of the params tree of
\* the request and of the handler's result (kept, once the request is
\* finished, until the next read)
NoCur == [fd |-> 0, method |-> 0, params |-> NULL, handler |-> NoHandler,
          result |-> NULL, invoked |-> 0, wrote |-> 0, parsed |-> FALSE,
          known |-> NoHandler, listed |-> TRUE, freed |-> 0, rfreed |-> 0]

method_count == Len(methods)

\* a scan that takes the first entry whatever its name
FindMethodAny(ms, name) == IF ms = <<>> THEN 0 ELSE 1

\* index of the first entry named name, 0 when there is none
\* (the strcmp scan of sockrpc_server_register and handle_client_request)
FindMethod(ms, name) ==
  LET hits == {i \in 1 .. Len(ms) : ms[i].name = name}
  IN IF hits = {} THEN 0 ELSE CHOOSE i \in hits : \A k \in hits : i <= k

InitCommon ==
  /\ mpc = "created"
  /\ startCalled = FALSE
  /\ running = 0
  /\ server_fd = 0
  /\ lsock = "none"
  /\ file = FALSE
  /\ methods = <<>>
  /\ reg_mutex = Free
  /\ next_worker = 0
  /\ copies = <<>>
  /\ rpc = [r \in RegThreads |-> "idle"]
  /\ rarg = [r \in RegThreads |-> NoCall]
  /\ nregs = 0
  /\ lastReg = [n \in Names |-> NoHandler]
  /\ regHist = [n \in Names |-> {}]
  /\ lateReg = {}
  /\ wpc = [w \in Workers |-> "none"]
  /\ num_connections = [w \in Workers |-> 0]
  /\ epoll = [w \in Workers |-> {}]
  /\ ready = [w \in Workers |-> {}]
  /\ wq = [w \in Workers |-> <<>>]
  /\ wcur = [w \in Workers |-> NoCur]
  /\ apc = "none"
  /\ acur = [fd |-> 0, worker |-> 0]
  /\ backlog = <<>>
  /\ naccepted = 0
  /\ lb_mutex = Free
  /\ wmutex = [w \in Workers |-> Free]
  /\ sfd = [c \in Clients |-> "none"]
  /\ c2s = [c \in Clients |-> <<>>]
  /\ s2c = [c \in Clients |-> <<>>]
  /\ cstate = [c \in Clients |-> "none"]
  /\ cmutex = [c \in Clients |-> 0]
  /\ tpc = [t \in Threads |-> "idle"]
  /\ tcall = [t \in Threads |-> [method |-> 0, params |-> NULL,
                                  outcome |-> "none", reg |-> NoHandler,
                                  mode |-> "sync", cb |-> FALSE]]
  /\ tres = [t \in Threads |-> NULL]
  /\ prel = [t \in Threads |-> 0]
  /\ tsent = [t \in Threads |-> FALSE]
  /\ ncalls = 0
  /\ misuse = {}
  /\ epoll_fd = [w \in Workers |-> "open"]
  /\ stale = [c \in Clients |-> 0]
  /\ tmix = [t \in Threads |-> FALSE]
  /\ seg = [t \in Threads |-> 0]
  /\ async_pc = [t \in Threads |-> "none"]
  /\ nasync = 0
  /\ cbcount = [t \in Threads |-> 0]
  /\ resrel = [t \in Threads |-> 0]
  /\ taskfree = [t \in Threads |-> 0]
  /\ late = {}

(***************************************************************************)
(* A scenario bounds one run and fixes its environment:                    *)
(*   calls       sockrpc_client_call_sync calls issued, over all threads   *)
(*   regs        sockrpc_server_register calls that pass the argument test *)
(*   clientOf    the client each calling thread uses (0: thread not used)  *)
(*   clients     the clients the application creates                       *)
(*   handlers    the handlers the registering threads pass                 *)
(*   regthreads  threads that call sockrpc_server_register                 *)
(*   faults      environment failures that may occur: "start" (socket,     *)
(*               bind, listen), "epoll" (epoll_ctl), "alloc" (cJSON        *)
(*               allocation), "short" (write accepts part of a buffer),    *)
(*               "full" (a connection holds SendBuffer unread bytes),      *)
(*               "segment" (the bytes of one write reach the peer in       *)
(*               pieces)                                                   *)
(*   names       the method names the registering threads pass             *)
(*   callnames   the method names the calling threads pass                 *)
(*   params      the params the calling threads pass                       *)
(*   asyncs      sockrpc_client_call_async calls issued, over all threads  *)
(*   callbacks   the callback arguments passed: TRUE (a function), FALSE   *)
(*               (NULL)                                                    *)
(*   order       what the application keeps of the order of the test       *)
(*               suite: "register-first" (registers return before start),  *)
(*               "clients-late" (clients are created once start returned), *)
(*               "destroy-last" (destroy once all calls are issued and no  *)
(*               caller is about to write), "destroy-idle" (destroy while  *)
(*               no call is under way), "async-last" (async calls once     *)
(*               the sync calls and the register calls returned),          *)
(*               "client-destroy-last" (a client                           *)
(*               is destroyed once every call was issued, every call on it *)
(*               returned and sockrpc_server_destroy returned); without an *)
(*               entry its threads use that part of the API at any time    *)
(***************************************************************************)
TestOrder == {"register-first", "clients-late", "destroy-last", "async-last",
              "client-destroy-last"}

\* every thread on client 1, or thread t on client t (modulo NumClients)
SharedClient == [t \in Threads |-> 1]
OwnClient == [t \in Threads |-> ((t - 1) % NumClients) + 1]

ClientOf(t) == cfg.clientOf[t]
UsedClients == cfg.clients
Outcomes(kind) == IF kind \in cfg.faults THEN BOOLEAN ELSE {TRUE}

(***************************************************************************)
(* sockrpc_server_start                                                    *)
(***************************************************************************)
\* socket(AF_UNIX, SOCK_STREAM | SOCK_NONBLOCK, 0); returns on failure
StartSocket ==
  /\ mpc = "created"
  /\ ~startCalled
  /\ "register-first" \in cfg.order => \A r \in RegThreads : rpc[r] = "idle"
  /\ startCalled' = TRUE
  /\ \E ok \in Outcomes("start") :
       IF ok
       THEN /\ server_fd' = 3
            /\ lsock' = "open"
            /\ mpc' = "s_bind"
       ELSE /\ server_fd' = -1
            /\ UNCHANGED <<lsock, mpc>>
  /\ UNCHANGED <<running, file, methods, reg_mutex, next_worker, copies>>
  /\ UNCHANGED <<regVars, wrkVars, accVars, conVars, cliVars, envVars, fdVars, ordVars, asyVars>>

\* unlink(socket_path); bind(); on failure close(server_fd) and return
StartBind ==
  /\ mpc = "s_bind"
  /\ \E ok \in Outcomes("start") :
       IF ok
       THEN /\ file' = TRUE
            /\ lsock' = "bound"
            /\ mpc' = "s_listen"
       ELSE /\ file' = FALSE
            /\ lsock' = "closed"
            /\ mpc' = "created"
  /\ UNCHANGED <<startCalled, running, server_fd, methods, reg_mutex,
                 next_worker, copies>>
  /\ UNCHANGED <<regVars, wrkVars, accVars, conVars, cliVars, envVars, fdVars, ordVars, asyVars>>

\* listen(server_fd, SOMAXCONN); on failure close(server_fd) and return
StartListen ==
  /\ mpc = "s_listen"
  /\ \E ok \in Outcomes("start") :
       IF ok
       THEN /\ lsock' = "listening"
            /\ mpc' = "s_run"
       ELSE /\ lsock' = "closed"
            /\ mpc' = "created"
  /\ UNCHANGED <<startCalled, running, server_fd, file, methods, reg_mutex,
                 next_worker, copies>>
  /\ UNCHANGED <<regVars, wrkVars, accVars, conVars, cliVars, envVars, fdVars, ordVars, asyVars>>

\* a start that leaves the flag as calloc made it
RunningKept(flag) == flag

\* line 1104: server->running = 1, whatever it was
RunningSet(flag) == 1

\* server->running = 1
StartRun ==
  /\ mpc = "s_run"
  /\ running' = RunningSet(running)
  /\ mpc' = "s_spawn"
  /\ UNCHANGED <<startCalled, server_fd, lsock, file, methods, reg_mutex,
                 next_worker, copies>>
  /\ UNCHANGED <<regVars, wrkVars, accVars, conVars, cliVars, envVars, fdVars, ordVars, asyVars>>

\* pthread_create of the NUM_WORKERS workers and of the detached acceptor
StartSpawn ==
  /\ mpc = "s_spawn"
  /\ wpc' = [w \in Workers |-> "loop"]
  /\ apc' = "accept"
  /\ mpc' = "started"
  /\ UNCHANGED <<num_connections, epoll, ready, wq, wcur>>
  /\ UNCHANGED <<acur, backlog, naccepted, lb_mutex, wmutex>>
  /\ UNCHANGED <<startCalled, running, server_fd, lsock, file, methods,
                 reg_mutex, next_worker, copies>>
  /\ UNCHANGED <<regVars, conVars, cliVars, envVars, fdVars, ordVars, asyVars>>

(***************************************************************************)
(* sockrpc_server_register                                                 *)
(***************************************************************************)
\* the server object is alive and sockrpc_server_destroy has not been called
ServerAlive == mpc \in {"created", "s_bind", "s_listen", "s_run", "s_spawn", "started"}

\* the argument and capacity test made before server->mutex is taken
RegRejects(name, handler) ==
  name = NoName \/ handler = NoHandler \/ method_count >= MAX_METHODS

RegCall(r, name, handler) ==
  /\ ServerAlive
  /\ "register-first" \in cfg.order => ~startCalled
  /\ r <= cfg.regthreads
  /\ rpc[r] = "idle"
  /\ nregs < cfg.regs
  /\ nregs' = IF RegRejects(name, handler) THEN nregs ELSE nregs + 1
  /\ rarg' = [rarg EXCEPT ![r] = [name |-> name, handler |-> handler]]
  /\ rpc' = [rpc EXCEPT ![r] = IF RegRejects(name, handler) THEN "idle" ELSE "lock"]
  /\ UNCHANGED <<lastReg, regHist, lateReg>>
  /\ UNCHANGED <<srvVars, wrkVars, accVars, conVars, cliVars, envVars, fdVars, ordVars, asyVars>>

\* a register that never replaces: every call appends an entry
RegStoreAppend(ms, cs, name, handler) ==
  [methods |-> Append(ms, [name |-> name, handler |-> handler, copy |-> Len(cs) + 1]),
   copies |-> Append(cs, 0)]

\* the registry after the locked part of register: replace in place
\* (free the old name copy, strdup a new one) or append
RegStore(ms, cs, name, handler) ==
  LET i == FindMethod(ms, name)
      fresh == [name |-> name, handler |-> handler, copy |-> Len(cs) + 1]
  IN IF i # 0
     THEN [methods |-> [ms EXCEPT ![i] = fresh],
           copies |-> Append([cs EXCEPT ![ms[i].copy] = @ + 1], 0)]
     ELSE [methods |-> Append(ms, fresh),
           copies |-> Append(cs, 0)]

\* pthread_mutex_lock(&server->mutex) and the scan under it
RegBody(r) ==
  /\ rpc[r] = "lock"
  /\ reg_mutex = Free
  /\ LET st == RegStore(methods, copies, rarg[r].name, rarg[r].handler)
     IN /\ methods' = st.methods
        /\ copies' = st.copies
  /\ reg_mutex' = RegOwner(r)
  /\ rpc' = [rpc EXCEPT ![r] = "unlock"]
  /\ regHist' = [regHist EXCEPT ![rarg[r].name] = @ \cup {rarg[r].handler}]
  /\ UNCHANGED <<mpc, startCalled, running, server_fd, lsock, file, next_worker>>
  /\ UNCHANGED <<rarg, nregs, lastReg, lateReg>>
  /\ UNCHANGED <<wrkVars, accVars, conVars, cliVars, envVars, fdVars, ordVars, asyVars>>

\* pthread_mutex_unlock(&server->mutex); return
RegUnlock(r) ==
  /\ rpc[r] = "unlock"
  /\ reg_mutex' = Free
  /\ rpc' = [rpc EXCEPT ![r] = "idle"]
  /\ lastReg' = [lastReg EXCEPT ![rarg[r].name] = rarg[r].handler]
  /\ lateReg' = IF /\ mpc = "started"
                   /\ lastReg[rarg[r].name] = NoHandler
                   /\ \E t \in Threads : tpc[t] \in {"lock", "write", "read"}
                THEN lateReg \cup {rarg[r].name} ELSE lateReg
  /\ UNCHANGED <<mpc, startCalled, running, server_fd, lsock, file, methods,
                 next_worker, copies>>
  /\ UNCHANGED <<rarg, nregs, regHist>>
  /\ UNCHANGED <<wrkVars, accVars, conVars, cliVars, envVars, fdVars, ordVars, asyVars>>

(***************************************************************************)
(* sockrpc_server_destroy                                                  *)
(***************************************************************************)
\* server->running = 0; shutdown(server->server_fd, SHUT_RDWR).
\* The caller keeps sockrpc_server_register from running concurrently.
\* server_fd is 0 after calloc, -1 after a failed socket() (the call then
\* fails with EBADF), and is not reset when start closes the descriptor.
NotHeld(call) ==
  IF server_fd = 0 THEN {<<call, "descriptor 0 was not opened by the server">>}
  ELSE IF server_fd = 3 /\ lsock = "closed"
       THEN {<<call, "descriptor was closed by sockrpc_server_start">>}
       ELSE {}

DestroyStop ==
  /\ mpc \in {"created", "started"}
  /\ "destroy-last" \in cfg.order =>
       \/ mpc = "created" /\ startCalled
       \/ /\ mpc = "started"
          /\ ncalls = cfg.calls
          /\ nasync = cfg.asyncs
          /\ \A t \in Threads : tpc[t] \in {"idle", "done", "read"}
  /\ "destroy-idle" \in cfg.order => \A t \in Threads : tpc[t] \in {"idle", "done"}
  /\ \A r \in RegThreads : rpc[r] = "idle"
  /\ running' = 0
  /\ lsock' = IF server_fd = 3 /\ lsock = "listening" THEN "shut" ELSE lsock
  /\ misuse' = misuse \cup NotHeld("shutdown")
  /\ mpc' = "d_join"
  /\ UNCHANGED <<startCalled, server_fd, file, methods, reg_mutex,
                 next_worker, copies>>
  /\ UNCHANGED epoll_fd
  /\ UNCHANGED <<regVars, wrkVars, accVars, conVars, cliVars, envVars, ordVars, asyVars>>

\* pthread_join of every worker thread.  worker_threads[i] is zeroed by
\* calloc until pthread_create fills it; joining such a value is undefined:
\* the call returns an error or the process faults.
DestroyJoin ==
  /\ mpc = "d_join"
  /\ \A w \in Workers : wpc[w] \in {"none", "exited"}
  /\ IF \E w \in Workers : wpc[w] = "none"
     THEN /\ misuse' = misuse \cup {<<"pthread_join", "thread was never created">>}
          /\ mpc' \in {"d_free", "crashed"}
     ELSE /\ mpc' = "d_free"
          /\ UNCHANGED misuse
  /\ UNCHANGED <<startCalled, running, server_fd, lsock, file, methods,
                 reg_mutex, next_worker, copies>>
  /\ UNCHANGED epoll_fd
  /\ UNCHANGED <<regVars, wrkVars, accVars, conVars, cliVars, envVars, ordVars, asyVars>>

\* a destroy that leaves the last entry's name allocated
FreeNamesShort(ms, cs) ==
  [k \in 1 .. Len(cs) |->
     cs[k] + Cardinality({i \in 1 .. (Len(ms) - 1) : ms[i].copy = k})]

\* the name copies after free(methods[i].name) for i < method_count
FreeNames(ms, cs) ==
  [k \in 1 .. Len(cs) |->
     cs[k] + Cardinality({i \in 1 .. Len(ms) : ms[i].copy = k})]

\* destroy the worker mutexes, free the names, close(server_fd),
\* unlink(socket_path), destroy the mutexes, free the server
DestroyFree ==
  /\ mpc = "d_free"
  /\ copies' = FreeNames(methods, copies)
  /\ lsock' = IF server_fd = 3 THEN "closed" ELSE lsock
  /\ file' = FALSE
  /\ misuse' = misuse \cup NotHeld("close")
  /\ mpc' = "destroyed"
  /\ UNCHANGED <<startCalled, running, server_fd, methods, reg_mutex, next_worker>>
  /\ UNCHANGED epoll_fd
  /\ UNCHANGED <<regVars, wrkVars, accVars, conVars, cliVars, envVars, ordVars, asyVars>>

(***************************************************************************)
(* acceptor_routine and select_worker                                      *)
(***************************************************************************)
\* a cursor that advances by two
NextCursorSkip(cur) == (cur + 2) % NUM_WORKERS

\* select_worker: the cursor after one selection
NextCursor(cur) == (cur + 1) % NUM_WORKERS

\* one turn of while (server->running): accept(), set_nonblocking(),
\* select_worker().  EAGAIN (empty backlog) retries; any other error,
\* as after shutdown(), leaves the loop.
\* The thread is detached and never joined: once sockrpc_server_destroy
\* has freed the server its loop test reads freed memory, and the thread
\* leaves the loop or faults.
\* a select_worker that returns without unlocking
HeldAfterSelect == AcceptOwner

\* lines 824-827: the owner of server->lb_mutex when select_worker returns
AfterSelect == Free

AcceptConn ==
  /\ apc = "accept"
  /\ IF running = 0 \/ lsock # "listening"
     THEN /\ apc' \in (IF mpc = "destroyed" THEN {"exited", "crashed"}
                      ELSE {"exited"})
          /\ UNCHANGED <<acur, backlog, naccepted, next_worker, sfd, lb_mutex>>
     ELSE /\ backlog # <<>>
          /\ lb_mutex = Free
          /\ lb_mutex' = AfterSelect
          /\ acur' = [fd |-> Head(backlog), worker |-> next_worker]
          /\ next_worker' = NextCursor(next_worker)
          /\ backlog' = Tail(backlog)
          /\ naccepted' = naccepted + 1
          /\ sfd' = [sfd EXCEPT ![Head(backlog)] = "open"]
          /\ apc' = "add"
  /\ UNCHANGED <<mpc, startCalled, running, server_fd, lsock, file, methods,
                 reg_mutex, copies>>
  /\ UNCHANGED <<c2s, s2c>>
  /\ UNCHANGED wmutex
  /\ UNCHANGED <<regVars, wrkVars, cliVars, envVars, fdVars, ordVars, asyVars>>

\* an acceptor that adds the descriptor to every worker's set
WatchAll(ep, w, fd) == [x \in DOMAIN ep |-> ep[x] \cup {fd}]

\* epoll_ctl(worker->epoll_fd, EPOLL_CTL_ADD, client_fd, &ev)
Watch(ep, w, fd) == [ep EXCEPT ![w] = @ \cup {fd}]

\* epoll_ctl(EPOLL_CTL_ADD, EPOLLIN | EPOLLET); data already queued raises
\* the first edge; on failure close(client_fd) and continue
\* an epoll set that reports only what arrives after the add
ReadyAtAddNever(avail) == FALSE

\* EPOLL_CTL_ADD of a descriptor that is readable already raises its event
ReadyAtAdd(avail) == avail # <<>>

AcceptAdd ==
  /\ apc = "add"
  /\ \E ok \in Outcomes("epoll") :
       IF ok
       THEN /\ epoll' = Watch(epoll, acur.worker, acur.fd)
            /\ ready' = [ready EXCEPT ![acur.worker] =
                           IF ReadyAtAdd(c2s[acur.fd]) THEN @ \cup {acur.fd} ELSE @]
            /\ apc' = "count"
            /\ UNCHANGED sfd
       ELSE /\ sfd' = [sfd EXCEPT ![acur.fd] = "closed"]
            /\ apc' = "accept"
            /\ UNCHANGED <<epoll, ready>>
  /\ UNCHANGED <<wpc, num_connections, wq, wcur>>
  /\ UNCHANGED <<acur, backlog, naccepted, lb_mutex, wmutex>>
  /\ UNCHANGED <<c2s, s2c>>
  /\ UNCHANGED <<srvVars, regVars, cliVars, envVars, fdVars, ordVars, asyVars>>

\* line 990: pthread_mutex_lock(&worker->mutex)
AcceptLock ==
  /\ apc = "count"
  /\ wmutex[acur.worker] = Free
  /\ wmutex' = [wmutex EXCEPT ![acur.worker] = AcceptOwner]
  /\ apc' = "locked"
  /\ UNCHANGED <<acur, backlog, naccepted, lb_mutex>>
  /\ UNCHANGED <<srvVars, regVars, wrkVars, conVars, cliVars, envVars, fdVars, ordVars, asyVars>>

\* lines 991-993: worker->num_connections++ and the unlock
AcceptCount ==
  /\ apc = "locked"
  /\ num_connections' = [num_connections EXCEPT ![acur.worker] = @ + 1]
  /\ wmutex' = [wmutex EXCEPT ![acur.worker] = Free]
  /\ apc' = "accept"
  /\ UNCHANGED <<wpc, epoll, ready, wq, wcur>>
  /\ UNCHANGED <<acur, backlog, naccepted, lb_mutex>>
  /\ UNCHANGED <<srvVars, regVars, conVars, cliVars, envVars, fdVars, ordVars, asyVars>>

(***************************************************************************)
(* worker_routine and handle_client_request                                *)
(***************************************************************************)
\* all orders in which epoll_wait may report the ready descriptors
Orders(S) == {q \in [1 .. Cardinality(S) -> S] : \A i, j \in DOMAIN q : i # j => q[i] # q[j]}

\* after one descriptor is handled: the next event, or back to epoll_wait
AfterEvent(q) == IF Len(q) > 1 THEN "read" ELSE "loop"

\* while (server->running) epoll_wait(..., 100): leaves the loop once
\* running is 0, else takes the pending edges (a timeout changes nothing)
WorkerWait(w) ==
  /\ wpc[w] = "loop"
  /\ IF running = 0
     THEN /\ wpc' = [wpc EXCEPT ![w] = "exited"]
          /\ UNCHANGED <<ready, wq>>
     ELSE /\ ready[w] # {}
          /\ \E q \in Orders(ready[w]) : wq' = [wq EXCEPT ![w] = q]
          /\ ready' = [ready EXCEPT ![w] = {}]
          /\ wpc' = [wpc EXCEPT ![w] = "read"]
  /\ UNCHANGED <<num_connections, epoll, wcur>>
  /\ UNCHANGED <<srvVars, regVars, accVars, conVars, cliVars, envVars, fdVars, ordVars, asyVars>>

\* a read_all that fills the whole buffer
read_allFull(avail, max_len) == Min(Len(avail), max_len)

\* read_all(fd, buffer, max_len): bytes stored before the terminator
read_all(avail, max_len) == Min(Len(avail), max_len - 1)

\* a worker that counts a parse failure as a lost connection
CountAfterReadStrict(count, n, ok) == IF n <= 0 \/ ~ok THEN count - 1 ELSE count

\* lines 852-864: num_connections drops when nothing was read, and only
\* then; a parse failure just returns
CountAfterRead(count, n, ok) == IF n <= 0 THEN count - 1 ELSE count

\* lines 849-867: read_all, the n <= 0 exit (the counter update under
\* worker->mutex, lines 854-856, waits for the mutex and is over within
\* the step), cJSON_Parse, method and params.
\* Line 866: cJSON_GetObjectItem(request, "method")->valuestring.  Without
\* a "method" member the item is a null pointer and its field is read all
\* the same: the worker faults, or goes on with a name that is no method.
WorkerRead(w) ==
  /\ wpc[w] = "read"
  /\ LET fd == Head(wq[w])
         n == read_all(c2s[fd], BUFFER_SIZE)
         req == ParseRequest(SubSeq(c2s[fd], 1, n))
     IN /\ n <= 0 => wmutex[w] = Free
        /\ c2s' = [c2s EXCEPT ![fd] = SubSeq(@, n + 1, Len(@))]
        /\ num_connections' = [num_connections EXCEPT ![w] = CountAfterRead(@, n, req.ok)]
        /\ IF n <= 0 \/ ~req.ok
           THEN /\ wq' = [wq EXCEPT ![w] = Tail(@)]
                /\ wpc' = [wpc EXCEPT ![w] = AfterEvent(wq[w])]
                /\ UNCHANGED wcur
           ELSE /\ wcur' = [wcur EXCEPT ![w] =
                              [NoCur EXCEPT !.fd = fd, !.method = req.method,
                                            !.params = req.params, !.parsed = TRUE,
                                            !.known = IF req.method = NoName
                                                      THEN NoHandler
                                                      ELSE lastReg[req.method]]]
                /\ \E pc \in (IF req.method = NoName THEN {"crashed", "lookup"}
                                ELSE {"lookup"}) :
                     wpc' = [wpc EXCEPT ![w] = pc]
                /\ UNCHANGED wq
  /\ UNCHANGED <<epoll, ready>>
  /\ UNCHANGED <<sfd, s2c>>
  /\ UNCHANGED <<srvVars, regVars, accVars, cliVars, envVars, fdVars, ordVars, asyVars>>

\* a scan that stops one entry before method_count
LookupHandlerShort(ms, name) ==
  LET i == FindMethod(ms, name)
  IN IF i = 0 \/ i = Len(ms) THEN NoHandler ELSE ms[i].handler

\* lines 873-881: the handler copied out by the scan under server->mutex
LookupHandler(ms, name) ==
  LET i == FindMethod(ms, name)
  IN IF i = 0 THEN NoHandler ELSE ms[i].handler

WorkerLookup(w) ==
  /\ wpc[w] = "lookup"
  /\ reg_mutex = Free
  /\ reg_mutex' = WorkerOwner(w)
  /\ wcur' = [wcur EXCEPT ![w].handler = LookupHandler(methods, wcur[w].method)]
  /\ wpc' = [wpc EXCEPT ![w] = "unlock"]
  /\ UNCHANGED <<mpc, startCalled, running, server_fd, lsock, file, methods,
                 next_worker, copies>>
  /\ UNCHANGED <<num_connections, epoll, ready, wq>>
  /\ UNCHANGED <<regVars, accVars, conVars, cliVars, envVars, fdVars, ordVars, asyVars>>

\* a worker that keeps server->mutex until the request is finished
HeldAfterScan(w) == WorkerOwner(w)

\* line 882: the owner of server->mutex once the scan is over
AfterScan(w) == Free

\* line 882: pthread_mutex_unlock(&server->mutex)
WorkerUnlock(w) ==
  /\ wpc[w] = "unlock"
  /\ reg_mutex' = AfterScan(w)
  /\ wpc' = [wpc EXCEPT ![w] = "invoke"]
  /\ UNCHANGED <<mpc, startCalled, running, server_fd, lsock, file, methods,
                 next_worker, copies>>
  /\ UNCHANGED <<num_connections, epoll, ready, wq, wcur>>
  /\ UNCHANGED <<regVars, accVars, conVars, cliVars, envVars, fdVars, ordVars, asyVars>>

\* times handler h releases the params it is given
HandlerFrees(h) == IF h = "own" THEN 1 ELSE 0

\* lines 885-888: if (found_handler) result = found_handler(params)
Invoke(cur) ==
  IF cur.handler # NoHandler
  THEN [cur EXCEPT !.result = Apply(cur.handler, cur.params), !.invoked = @ + 1,
                   !.freed = @ + HandlerFrees(cur.handler)]
  ELSE cur

WorkerInvoke(w) ==
  /\ wpc[w] = "invoke"
  /\ wcur' = [wcur EXCEPT ![w] =
               [Invoke(@) EXCEPT !.listed =
                  LookupHandler(methods, wcur[w].method) = wcur[w].handler]]
  /\ wpc' = [wpc EXCEPT ![w] = "write"]
  /\ UNCHANGED <<num_connections, epoll, ready, wq>>
  /\ UNCHANGED <<srvVars, regVars, accVars, conVars, cliVars, envVars, fdVars, ordVars, asyVars>>

\* byte counts one write() of len bytes may accept
Accepted(len) == IF "short" \in cfg.faults THEN 1 .. len ELSE {len}

\* bytes of a len-byte buffer the connection can take now: all of them,
\* or under "full" what is left of the SendBuffer bytes a connection holds
\* unread
Room(buf, len) ==
  IF "full" \in cfg.faults THEN Min(len, SendBuffer - Len(buf)) ELSE len

\* a worker that answers an absent result with an empty array
ResponseAlways(cur) == cJSON_Print(IF cur.result # NULL THEN cur.result ELSE <<>>)

\* lines 890-896: the bytes write_all puts on the connection
Response(cur) == IF cur.result # NULL THEN cJSON_Print(cur.result) ELSE <<>>

\* line 895: cJSON_Delete(result), inside if (result)
ResultFrees(cur) == IF cur.result # NULL THEN 1 ELSE 0

\* a write_all that gives up after its first write
AfterWriteOnce(total, len) == "release"

\* lines 798-810: write_all writes again while bytes remain
AfterWrite(total, len) == IF total < len THEN "write" ELSE "release"

\* lines 890-896: print, write_all (one write() per step, each taking part
\* or all of what remains), then free the text and delete the result.
\* Lines 800-806: a write() that fails with EAGAIN because the connection
\* takes no byte is called again at once, as long as it fails: the worker
\* stays in write_all until the peer has read.
WorkerWrite(w) ==
  /\ wpc[w] = "write"
  /\ LET resp == Response(wcur[w])
         left == Len(resp) - wcur[w].wrote
         room == Room(s2c[wcur[w].fd], left)
     IN \E k \in (IF left = 0 THEN {0}
                  ELSE IF room = 0 THEN {} ELSE Accepted(room)) :
          LET total == wcur[w].wrote + k
              next == AfterWrite(total, Len(resp))
          IN /\ s2c' = [s2c EXCEPT ![wcur[w].fd] =
                          @ \o SubSeq(resp, wcur[w].wrote + 1, total)]
             /\ wcur' = [wcur EXCEPT ![w].wrote = total,
                                     ![w].rfreed = IF next = "release"
                                                   THEN @ + ResultFrees(wcur[w])
                                                   ELSE @]
             /\ wpc' = [wpc EXCEPT ![w] = next]
  /\ UNCHANGED <<num_connections, epoll, ready, wq>>
  /\ UNCHANGED <<sfd, c2s>>
  /\ UNCHANGED <<srvVars, regVars, accVars, cliVars, envVars, fdVars, ordVars, asyVars>>

\* a worker that leaves its loop once a method was not found
AfterRequestKnown(cur, q) == IF cur.handler = NoHandler THEN "exited" ELSE AfterEvent(q)

\* lines 885-899 and 931-935: found or not, the request ends at line 898
\* and the worker goes on with its events
AfterRequest(cur, q) == AfterEvent(q)

\* line 898: cJSON_Delete(request) releases the request with params, which
\* is still its child; back to the event loop.  Params that the handler
\* released already are released twice: the worker goes on or faults.
WorkerRelease(w) ==
  /\ wpc[w] = "release"
  /\ wcur' = [wcur EXCEPT ![w] = [NoCur EXCEPT !.freed = wcur[w].freed + 1,
                                                !.rfreed = wcur[w].rfreed]]
  /\ wq' = [wq EXCEPT ![w] = Tail(@)]
  /\ wpc' \in {[wpc EXCEPT ![w] = AfterRequest(wcur[w], wq[w])]} \cup
              (IF wcur[w].freed > 0 THEN {[wpc EXCEPT ![w] = "crashed"]} ELSE {})
  /\ UNCHANGED <<num_connections, epoll, ready>>
  /\ UNCHANGED <<srvVars, regVars, accVars, conVars, cliVars, envVars, fdVars, ordVars, asyVars>>

(***************************************************************************)
(* sockrpc_client_create and sockrpc_client_call_sync                      *)
(***************************************************************************)
\* connect() reaches a server that is bound and listening
Listening == file /\ lsock = "listening"

\* socket(); connect() with its result ignored; pthread_mutex_init();
\* the handle is returned in either case
ClientCreate(c) ==
  /\ cstate[c] = "none"
  /\ c \in UsedClients
  /\ "clients-late" \in cfg.order => mpc = "started"
  /\ IF Listening
     THEN /\ cstate' = [cstate EXCEPT ![c] = "connected"]
          /\ sfd' = [sfd EXCEPT ![c] = "queued"]
          /\ backlog' = Append(backlog, c)
     ELSE /\ cstate' = [cstate EXCEPT ![c] = "unconnected"]
          /\ UNCHANGED <<sfd, backlog>>
  /\ UNCHANGED <<cmutex, tpc, tcall, tres, prel, tsent, ncalls>>
  /\ UNCHANGED <<apc, acur, naccepted, lb_mutex, wmutex>>
  /\ UNCHANGED <<c2s, s2c>>
  /\ UNCHANGED <<srvVars, regVars, wrkVars, envVars, fdVars, ordVars, asyVars>>

\* a build that releases params only with a request it printed
ReleasedOnSuccess(outcome) == IF outcome = "ok" THEN 1 ELSE 0

\* lines 132-147: how often params is released before the lock is taken.
\* "nocreate": cJSON_CreateObject failed and params is deleted directly
\* (line 135); otherwise cJSON_AddItemToObject moves params into the
\* request, and cJSON_Delete(request) releases it with the request
\* (line 143), also when cJSON_Print failed ("noprint")
ReleasedByBuild(outcome) ==
  LET direct == IF outcome = "nocreate" THEN 1 ELSE 0
      withRequest == IF outcome \in {"ok", "noprint"} THEN 1 ELSE 0
  IN direct + withRequest

\* where a thread continues once sockrpc_client_call_sync returned: an
\* application thread is done, a task goes on in async_call_routine
AfterCall(mode) == IF mode = "async" THEN "deliver" ELSE "done"

\* the application has a handle of client c that it has not destroyed
Usable(c) == c # 0 /\ cstate[c] \in {"connected", "unconnected"}

\* lines 132-147: build and serialize the request, in an application
\* thread or (line 189) in a task with the method and params of its data
CallBegin(t, m, p, outcome) ==
  /\ \/ /\ tpc[t] \in {"idle", "done"}
        /\ async_pc[t] # "spawned"
        /\ Usable(ClientOf(t))
        /\ ncalls < cfg.calls
        /\ ncalls' = ncalls + 1
     \/ /\ tpc[t] = "task"
        /\ m = tcall[t].method
        /\ p = tcall[t].params
        /\ UNCHANGED ncalls
  /\ LET mode == IF tpc[t] = "task" THEN "async" ELSE "sync"
     IN /\ tcall' = [tcall EXCEPT ![t] = [method |-> m, params |-> p,
                                          outcome |-> outcome,
                                          reg |-> IF m = NoName THEN NoHandler
                                                  ELSE lastReg[m],
                                          mode |-> mode,
                                          cb |-> mode = "async" /\ tcall[t].cb]]
        /\ tpc' = [tpc EXCEPT ![t] = IF outcome = "ok" THEN "lock" ELSE AfterCall(mode)]
  /\ tres' = [tres EXCEPT ![t] = NULL]
  /\ tsent' = [tsent EXCEPT ![t] = FALSE]
  /\ prel' = [prel EXCEPT ![t] = ReleasedByBuild(outcome)]
  /\ UNCHANGED <<cstate, cmutex>>
  /\ UNCHANGED <<srvVars, regVars, wrkVars, accVars, conVars, envVars, fdVars, ordVars, asyVars>>

\* a lock that never waits
CanLockAlways(c) == TRUE

\* line 150: pthread_mutex_lock(&client->mutex) can return
CanLock(c) == cmutex[c] = 0

\* the client of thread t was destroyed (closed, mutex destroyed, freed)
Destroyed(t) == cstate[ClientOf(t)] = "destroyed"

\* late, once thread t used that part of a client
LateUse(t, part) == IF Destroyed(t) THEN late \cup {<<t, part>>} ELSE late

\* line 150.  On a destroyed client the mutex lies in freed memory: the
\* lock returns whoever holds it, or the thread faults.
CallLock(t) ==
  /\ tpc[t] = "lock"
  /\ IF Destroyed(t)
     THEN /\ tpc' \in {[tpc EXCEPT ![t] = "write"], [tpc EXCEPT ![t] = "crashed"]}
          /\ UNCHANGED cmutex
     ELSE /\ CanLock(ClientOf(t))
          /\ cmutex' = [cmutex EXCEPT ![ClientOf(t)] = t]
          /\ tpc' = [tpc EXCEPT ![t] = "write"]
  /\ late' = LateUse(t, "mutex")
  /\ UNCHANGED <<async_pc, nasync, cbcount, resrel, taskfree>>
  /\ UNCHANGED <<cstate, tcall, tres, prel, tsent, ncalls>>
  /\ UNCHANGED <<srvVars, regVars, wrkVars, accVars, conVars, envVars, fdVars, ordVars>>

\* the worker whose epoll set holds descriptor c, if any
Watchers(c) == {w \in Workers : c \in epoll[w]}

\* the connection of client c carries bytes towards the server
CanSend(c) == cstate[c] = "connected" /\ sfd[c] # "closed"

\* byte counts that reach the peer in one piece out of the len bytes a
\* write() still has to pass: under "segment" the stream delivers them in
\* pieces, under "short" the write accepts a part and returns
Pieces(len) == IF "segment" \in cfg.faults THEN 1 .. len ELSE Accepted(len)

\* the write() returns once it has passed its bytes; under "segment" it is
\* still passing them while some remain
AfterPiece(total, len) ==
  IF "segment" \in cfg.faults /\ total < len THEN "write" ELSE "read"

\* lines 152-153: the single write() of the request; it fails on a socket
\* that is not connected.  Bytes arriving on a watched descriptor raise an
\* edge in the worker's epoll set.
CallWrite(t) ==
  /\ tpc[t] = "write"
  /\ LET c == ClientOf(t)
         req == PrintRequest(tcall[t].method, tcall[t].params)
         left == Len(req) - seg[t]
     IN IF CanSend(c)
        THEN \E k \in Pieces(left) :
               /\ c2s' = [c2s EXCEPT ![c] = @ \o SubSeq(req, seg[t] + 1, seg[t] + k)]
               /\ ready' = [w \in Workers |->
                              IF w \in Watchers(c) THEN ready[w] \cup {c} ELSE ready[w]]
               /\ tsent' = [tsent EXCEPT ![t] = (seg[t] + k = Len(req))]
               /\ seg' = [seg EXCEPT ![t] =
                            IF AfterPiece(seg[t] + k, Len(req)) = "write"
                            THEN seg[t] + k ELSE 0]
               /\ tpc' = [tpc EXCEPT ![t] = AfterPiece(seg[t] + k, Len(req))]
        ELSE /\ tpc' = [tpc EXCEPT ![t] = "read"]
             /\ UNCHANGED <<c2s, ready, tsent, seg>>
  /\ late' = LateUse(t, "socket")
  /\ UNCHANGED <<async_pc, nasync, cbcount, resrel, taskfree>>
  /\ UNCHANGED <<cstate, cmutex, tcall, tres, prel, ncalls>>
  /\ UNCHANGED <<wpc, num_connections, epoll, wq, wcur>>
  /\ UNCHANGED <<sfd, s2c>>
  /\ UNCHANGED <<stale, tmix>>
  /\ UNCHANGED <<srvVars, regVars, accVars, envVars, fdVars>>

\* line 156: n of read(client->fd, buffer, BUFFER_SIZE).  The read blocks
\* while the connection is open and empty; 0 is end of file, -1 an error
\* (a socket that is not connected, or a descriptor that was closed).
ReadCount(c) ==
  IF cstate[c] # "connected" THEN -1
  ELSE IF s2c[c] # <<>> THEN Min(Len(s2c[c]), BUFFER_SIZE)
  ELSE 0

ReadReturns(c) ==
  \/ cstate[c] # "connected"
  \/ s2c[c] # <<>>
  \/ sfd[c] = "closed"

\* a client that terminates the buffer one byte early
CallResultShort(buf, n) == IF n <= 0 THEN NULL ELSE cJSON_Parse(SubSeq(buf, 1, n - 1))

\* lines 160-164: the value returned for a read of n bytes
CallResult(buf, n) == IF n <= 0 THEN NULL ELSE cJSON_Parse(SubSeq(buf, 1, n))

\* line 163: buffer[n] = '\0' in char buffer[BUFFER_SIZE].  A read that
\* fills the buffer stores the terminator one byte behind it: the call
\* goes on or the thread faults.
AfterTerminator(n, mode) ==
  IF n >= BUFFER_SIZE THEN {AfterCall(mode), "crashed"} ELSE {AfterCall(mode)}

\* a call that returns on a failed read without unlocking
HeldOnFailedRead(t, n) == IF n <= 0 THEN t ELSE 0

\* line 158: the owner of client->mutex after the read, whatever it
\* returned
AfterRead(t, n) == 0

\* lines 156-164: read once, unlock, parse
CallRead(t) ==
  /\ tpc[t] = "read"
  /\ ReadReturns(ClientOf(t))
  /\ LET c == ClientOf(t)
         n == ReadCount(c)
     IN /\ tres' = [tres EXCEPT ![t] = CallResult(s2c[c], n)]
        /\ s2c' = [s2c EXCEPT ![c] = IF n > 0 THEN SubSeq(@, n + 1, Len(@)) ELSE @]
        /\ tmix' = [tmix EXCEPT ![t] = n > 0 /\ stale[c] > 0]
        /\ stale' = IF c \in Clients
                    THEN [stale EXCEPT ![c] = IF n > 0 THEN Len(s2c[c]) - n ELSE Len(s2c[c])]
                    ELSE stale
  /\ cmutex' = [cmutex EXCEPT ![ClientOf(t)] = AfterRead(t, ReadCount(ClientOf(t)))]
  /\ \E pc \in AfterTerminator(ReadCount(ClientOf(t)), tcall[t].mode) :
       tpc' = [tpc EXCEPT ![t] = pc]
  /\ late' = LateUse(t, "socket")
  /\ UNCHANGED <<async_pc, nasync, cbcount, resrel, taskfree>>
  /\ UNCHANGED <<cstate, tcall, prel, tsent, ncalls>>
  /\ UNCHANGED <<sfd, c2s>>
  /\ UNCHANGED seg
  /\ UNCHANGED <<srvVars, regVars, wrkVars, accVars, envVars, fdVars>>

(***************************************************************************)
(* sockrpc_client_call_async, async_call_routine, sockrpc_client_destroy   *)
(***************************************************************************)
\* the sync calls and the register calls were made and have returned
SyncCallsReturned ==
  /\ ncalls = cfg.calls
  /\ \A u \in Threads : tpc[u] \in {"idle", "done"}
  /\ nregs = cfg.regs
  /\ \A r \in RegThreads : rpc[r] = "idle"

\* lines 236-245: fill the task data, pthread_create, pthread_detach.
\* Thread t stands for the application thread and for the task it spawns;
\* it has one task at a time.
AsyncCall(t, m, p, cb) ==
  /\ tpc[t] \in {"idle", "done"}
  /\ async_pc[t] # "spawned"
  /\ Usable(ClientOf(t))
  /\ nasync < cfg.asyncs
  /\ "async-last" \in cfg.order => SyncCallsReturned
  /\ nasync' = nasync + 1
  /\ async_pc' = [async_pc EXCEPT ![t] = "spawned"]
  /\ tpc' = [tpc EXCEPT ![t] = "task"]
  /\ tcall' = [tcall EXCEPT ![t] = [method |-> m, params |-> p, outcome |-> "none",
                                    reg |-> IF m = NoName THEN NoHandler ELSE lastReg[m],
                                    mode |-> "async", cb |-> cb]]
  /\ tres' = [tres EXCEPT ![t] = NULL]
  /\ prel' = [prel EXCEPT ![t] = 0]
  /\ cbcount' = [cbcount EXCEPT ![t] = 0]
  /\ resrel' = [resrel EXCEPT ![t] = 0]
  /\ taskfree' = [taskfree EXCEPT ![t] = 0]
  /\ UNCHANGED late
  /\ UNCHANGED <<cstate, cmutex, tsent, ncalls>>
  /\ UNCHANGED <<srvVars, regVars, wrkVars, accVars, conVars, envVars, fdVars, ordVars>>

\* a call_async that joins its task before it returns
AsyncCanReturnJoined(t) == tpc[t] = "done"

\* line 246: nothing stands between pthread_detach and the return
AsyncCanReturn(t) == TRUE

\* sockrpc_client_call_async returns to its caller
AsyncReturn(t) ==
  /\ async_pc[t] = "spawned"
  /\ AsyncCanReturn(t)
  /\ async_pc' = [async_pc EXCEPT ![t] = "returned"]
  /\ UNCHANGED <<nasync, cbcount, resrel, taskfree, late>>
  /\ UNCHANGED <<srvVars, regVars, wrkVars, accVars, conVars, cliVars, envVars,
                 fdVars, ordVars>>

\* a shim that hands only present results to the callback
CallbackCallsPresent(cb, result) == IF cb /\ result # NULL THEN 1 ELSE 0

\* lines 192-195: the callback is invoked whenever one was given
CallbackCalls(cb, result) == IF cb THEN 1 ELSE 0

\* lines 196-199: without a callback a present result is deleted
ShimReleases(cb, result) == IF ~cb /\ result # NULL THEN 1 ELSE 0

\* lines 192-206: deliver or release the result, free the method copy and
\* the task data; the task thread ends
AsyncDeliver(t) ==
  /\ tpc[t] = "deliver"
  /\ cbcount' = [cbcount EXCEPT ![t] = @ + CallbackCalls(tcall[t].cb, tres[t])]
  /\ resrel' = [resrel EXCEPT ![t] = @ + ShimReleases(tcall[t].cb, tres[t])]
  /\ taskfree' = [taskfree EXCEPT ![t] = @ + 1]
  /\ late' = IF tcall[t].cb THEN LateUse(t, "callback") ELSE late
  /\ tpc' = [tpc EXCEPT ![t] = "done"]
  /\ UNCHANGED <<async_pc, nasync>>
  /\ UNCHANGED <<cstate, cmutex, tcall, tres, prel, tsent, ncalls>>
  /\ UNCHANGED <<srvVars, regVars, wrkVars, accVars, conVars, envVars, fdVars, ordVars>>

\* the calls of the application on client c have returned: no sync call is
\* under way on it and no call_async is still in its caller
ReturnedOn(c) ==
  \A t \in Threads :
    ClientOf(t) = c =>
      /\ async_pc[t] # "spawned"
      /\ tcall[t].mode = "sync" => tpc[t] \in {"idle", "done"}

\* no task runs on client c
NoTaskOn(c) ==
  \A t \in Threads : ClientOf(t) = c => tpc[t] \in {"idle", "done"}

\* lines 261-263: close(client->fd), pthread_mutex_destroy, free.  Tasks
\* are neither joined nor cancelled.  The close is an end of file for the
\* server: an edge in the epoll set that watches the connection.
ClientDestroy(c) ==
  /\ Usable(c)
  /\ ReturnedOn(c)
  /\ "client-destroy-last" \in cfg.order =>
       /\ ncalls = cfg.calls
       /\ nasync = cfg.asyncs
       /\ NoTaskOn(c)
       /\ mpc = "destroyed"
  /\ cstate' = [cstate EXCEPT ![c] = "destroyed"]
  /\ ready' = [w \in Workers |->
                 IF w \in Watchers(c) THEN ready[w] \cup {c} ELSE ready[w]]
  /\ UNCHANGED <<cmutex, tpc, tcall, tres, prel, tsent, ncalls>>
  /\ UNCHANGED <<wpc, num_connections, epoll, wq, wcur>>
  /\ UNCHANGED <<srvVars, regVars, accVars, conVars, envVars, fdVars, ordVars, asyVars>>

(***************************************************************************)
(* The program                                                             *)
(***************************************************************************)
MainStep ==
  \/ StartSocket
  \/ StartBind
  \/ StartListen
  \/ StartRun
  \/ StartSpawn
  \/ DestroyStop
  \/ DestroyJoin
  \/ DestroyFree

\* arguments of a register call: every name with every handler of the
\* scenario, and one call with each argument absent
RegInputs ==
  (cfg.names \X cfg.handlers) \cup {<<NoName, "echo">>, <<1, NoHandler>>}

\* outcomes of building the request
BuildOutcomes ==
  IF "alloc" \in cfg.faults THEN {"ok", "nocreate", "noprint"} ELSE {"ok"}

RegisterStep(r) ==
  \/ \E in \in RegInputs : RegCall(r, in[1], in[2])
  \/ RegBody(r)
  \/ RegUnlock(r)

AcceptorStep ==
  \/ AcceptConn
  \/ AcceptAdd
  \/ AcceptLock
  \/ AcceptCount

WorkerStep(w) ==
  \/ WorkerWait(w)
  \/ WorkerRead(w)
  \/ WorkerLookup(w)
  \/ WorkerUnlock(w)
  \/ WorkerInvoke(w)
  \/ WorkerWrite(w)
  \/ WorkerRelease(w)

CallerStep(t) ==
  \/ \E m \in cfg.callnames, p \in cfg.params, outcome \in BuildOutcomes :
       CallBegin(t, m, p, outcome)
  \/ CallLock(t)
  \/ CallWrite(t)
  \/ CallRead(t)

\* the async callers pass a method name (line 240 copies it with strdup)
AsyncStep(t) ==
  \/ \E m \in cfg.callnames \ {NoName}, p \in cfg.params, cb \in cfg.callbacks :
       AsyncCall(t, m, p, cb)
  \/ AsyncReturn(t)
  \/ AsyncDeliver(t)

Next ==
  \/ MainStep
  \/ \E r \in RegThreads : RegisterStep(r)
  \/ AcceptorStep
  \/ \E w \in Workers : WorkerStep(w)
  \/ \E c \in Clients : ClientCreate(c)
  \/ \E t \in Threads : CallerStep(t)
  \/ \E t \in Threads : AsyncStep(t)
  \/ \E c \in Clients : ClientDestroy(c)

(***************************************************************************)
(* Specifications.  All share Next; each starts from its own scenarios.    *)
(***************************************************************************)
\* async calls in the runs that follow the order of the test suite
TestAsyncs == 1
\* calls in the call-centred runs
CallRunCalls == 2
\* registrations in the call-centred runs
CallRunRegs == 1
\* calls in the registry-centred runs
RegRunCalls == 2
\* registrations in the registry-centred runs
RegRunRegs == 3

\* the one-thread assignment
OneCaller == [t \in Threads |-> IF t = 1 THEN 1 ELSE 0]

\* the clients an assignment of threads uses
ClientsOf(co) == {co[t] : t \in Threads} \ {0}

\* call-centred runs in the order of the test suite: two threads, on one
\* client or on one client each; name 1 is registered or not
CallRun(co) ==
  [calls |-> CallRunCalls, regs |-> CallRunRegs, clientOf |-> co,
   clients |-> ClientsOf(co),
   handlers |-> {"echo", "none"}, regthreads |-> 1, faults |-> {},
   names |-> {1}, callnames |-> {1}, params |-> ParamValues,
   asyncs |-> TestAsyncs, callbacks |-> {TRUE}, order |-> TestOrder]

Init ==
  /\ InitCommon
  /\ cfg \in {CallRun(co) : co \in {SharedClient, OwnClient}}

Spec == Init /\ [][Next]_vars

\* calls in the lifecycle runs
LifeRunCalls == 1
\* registrations in the lifecycle runs
LifeRunRegs == 2

\* lifecycle runs: start may fail, allocations may fail, the application
\* registers, creates clients and destroys the server at any time
LifeRun ==
  [calls |-> LifeRunCalls, regs |-> LifeRunRegs, clientOf |-> OneCaller,
   clients |-> ClientsOf(OneCaller),
   handlers |-> {"echo"}, regthreads |-> 1, faults |-> {"start", "alloc", "epoll"},
   names |-> {1, 2}, callnames |-> {1}, params |-> {<<1>>},
   asyncs |-> TestAsyncs, callbacks |-> {TRUE},
   order |-> {"async-last", "client-destroy-last"}]

InitLife ==
  /\ InitCommon
  /\ cfg = LifeRun

SpecLife == InitLife /\ [][Next]_vars

\* line 189: a task thread enters sockrpc_client_call_sync
TaskBegin(t) ==
  /\ tpc[t] = "task"
  /\ \E outcome \in BuildOutcomes :
       CallBegin(t, tcall[t].method, tcall[t].params, outcome)

\* the scheduler runs every thread of the library that can take a step
Fairness ==
  /\ WF_vars(AcceptorStep)
  /\ \A r \in RegThreads : WF_vars(RegBody(r) \/ RegUnlock(r))
  /\ \A w \in Workers : WF_vars(WorkerStep(w))
  /\ \A t \in Threads : WF_vars(CallLock(t) \/ CallWrite(t) \/ CallRead(t))
  /\ \A t \in Threads : WF_vars(TaskBegin(t) \/ AsyncReturn(t) \/ AsyncDeliver(t))

\* one call in the order of the test suite, under fair scheduling
LiveRun ==
  [CallRun(OneCaller) EXCEPT !.calls = LifeRunCalls, !.params = {<<1>>, <<2>>}]

InitLive ==
  /\ InitCommon
  /\ cfg = LiveRun

SpecLive == InitLive /\ [][Next]_vars /\ Fairness

\* one call under fair scheduling to a handler with a long result, on a
\* connection that holds SendBuffer unread bytes; the thread inside
\* sockrpc_server_destroy is scheduled as well
InitFull ==
  /\ InitCommon
  /\ cfg = [LiveRun EXCEPT !.handlers = {"echo", "big"}, !.faults = {"full"}]

SpecFull == InitFull /\ [][Next]_vars /\ Fairness /\ WF_vars(DestroyJoin)

\* one call in the order of the test suite by a caller that passes a
\* method name or NULL
InitNull ==
  /\ InitCommon
  /\ cfg = [LiveRun EXCEPT !.callnames = {NoName, 1}]

SpecNull == InitNull /\ [][Next]_vars

\* one call in the order of the test suite to a registered handler, on a
\* stream that delivers the bytes of a write in pieces
InitSegment ==
  /\ InitCommon
  /\ cfg = [LiveRun EXCEPT !.handlers = {"echo"}, !.faults = {"segment"}]

SpecSegment == InitSegment /\ [][Next]_vars

\* connection-centred runs in the order of the test suite: every client
\* connects, one thread calls, epoll_ctl may fail
ConnRun ==
  [CallRun(OneCaller) EXCEPT !.clients = Clients, !.handlers = {"echo"},
                             !.params = {<<1>>}, !.faults = {"epoll"}]

InitConn ==
  /\ InitCommon
  /\ cfg = ConnRun

SpecConn == InitConn /\ [][Next]_vars

\* runs with a handler whose response exceeds the client's buffer: one
\* thread calls twice on one client
OrderRun ==
  [CallRun(OneCaller) EXCEPT !.handlers = {"echo", "big"}, !.params = {<<1>>, <<2>>}]

InitOrder ==
  /\ InitCommon
  /\ cfg = OrderRun

SpecOrder == InitOrder /\ [][Next]_vars

\* runs in which a write() may accept only part of its buffer
ShortRun ==
  [CallRun(OneCaller) EXCEPT !.handlers = {"echo"}, !.faults = {"short"}]

InitShort ==
  /\ InitCommon
  /\ cfg = ShortRun

SpecShort == InitShort /\ [][Next]_vars

\* sync calls in the async runs
AsyncRunCalls == 0
\* async calls in the async runs
AsyncRunAsyncs == 2

\* async-centred runs: two threads share one client, with and without a
\* callback; epoll_ctl may fail; the client is destroyed whenever
\* the calls of the application returned
AsyncRun ==
  [CallRun(SharedClient) EXCEPT !.calls = AsyncRunCalls, !.asyncs = AsyncRunAsyncs,
                                !.callbacks = BOOLEAN, !.handlers = {"echo"},
                                !.params = {<<1>>}, !.faults = {"epoll"},
                                !.order = {"register-first", "clients-late",
                                           "destroy-last"}]

InitAsync ==
  /\ InitCommon
  /\ cfg = AsyncRun

SpecAsync == InitAsync /\ [][Next]_vars

\* thread t on its own client, the clients two apart so that round robin
\* gives both connections to one worker
SpreadClients == [t \in Threads |-> ((2 * (t - 1)) % NumClients) + 1]

\* runs with calls to a method nobody registered: every client connects,
\* each thread calls once on its own connection, under fair scheduling
ServeRun ==
  [CallRun(SpreadClients) EXCEPT !.clients = Clients, !.handlers = {"echo"},
                                 !.callnames = CallNames, !.params = {<<1>>}]

InitServe ==
  /\ InitCommon
  /\ cfg = ServeRun

SpecServe == InitServe /\ [][Next]_vars /\ Fairness

\* runs with a handler that releases its params as the handler contract
\* asks
OwnRun ==
  [CallRun(OneCaller) EXCEPT !.handlers = {"echo", "own"}, !.params = {<<1>>}]

InitOwn ==
  /\ InitCommon
  /\ cfg = OwnRun

SpecOwn == InitOwn /\ [][Next]_vars

\* sync calls in the stress runs
StressRunCalls == 1
\* async calls in the stress runs
StressRunAsyncs == 2

\* stress runs: threads on one client or on one client each mix sync and
\* async calls to a registered handler that returns a value, with requests
\* that fit the server's buffer, under fair scheduling; clients and server
\* are destroyed at the end
StressRun(co) ==
  [CallRun(co) EXCEPT !.calls = StressRunCalls, !.asyncs = StressRunAsyncs,
                      !.handlers = {"echo"}, !.params = {<<1>>},
                      !.order = (TestOrder \ {"async-last"}) \cup {"destroy-idle"}]

InitStress ==
  /\ InitCommon
  /\ cfg \in {StressRun(co) : co \in {SharedClient, OwnClient}}

SpecStress == InitStress /\ [][Next]_vars /\ Fairness

\* runs in which two threads register at the same time
InitRace ==
  /\ InitCommon
  /\ cfg = [CallRun(OneCaller) EXCEPT !.calls = LifeRunCalls, !.regs = RegRunRegs,
                                      !.regthreads = 2, !.names = Names,
                                      !.handlers = {"echo"}, !.params = {<<1>>}]

SpecRace == InitRace /\ [][Next]_vars

\* registry-centred runs: one calling thread, registrations before and
\* after start
RegRun ==
  [calls |-> RegRunCalls, regs |-> RegRunRegs, clientOf |-> OneCaller,
   clients |-> ClientsOf(OneCaller),
   handlers |-> {"echo", "const"}, regthreads |-> 1, faults |-> {},
   names |-> Names, callnames |-> CallNames, params |-> {<<1>>},
   asyncs |-> TestAsyncs, callbacks |-> {TRUE},
   order |-> {"clients-late", "destroy-last", "async-last", "client-destroy-last"}]

InitReg ==
  /\ InitCommon
  /\ cfg = RegRun

SpecReg == InitReg /\ [][Next]_vars

(***************************************************************************)
(* Properties                                                              *)
(***************************************************************************)
\* the threads between the start of the request write and the end of the
\* response read on client c
OnSocket(c) == {t \in Threads : ClientOf(t) = c /\ tpc[t] \in {"write", "read"}}

\* C1: on every client, at most one thread at a time is between the start
\* of its request write and the end of its response read, and that thread
\* holds the client's mutex
OneRoundTripPerClient ==
  \A c \in Clients :
    /\ Cardinality(OnSocket(c)) <= 1
    /\ \A t \in OnSocket(c) : cmutex[c] = t

\* two threads use one client: one waits for its response with the mutex
\* held while the other waits for the mutex
CallersContend ==
  \E t, u \in Threads :
    /\ t # u
    /\ ClientOf(t) = ClientOf(u)
    /\ tpc[t] = "read"
    /\ tpc[u] = "lock"
    /\ tsent[t]

\* thread t's call went whole, below the buffer limit, over a connection
\* the server kept, to a method that was registered with the echo handler
\* when the call began and has had no other handler
EchoCall(t) ==
  /\ tsent[t]
  /\ cstate[ClientOf(t)] = "connected"
  /\ sfd[ClientOf(t)] # "closed"
  /\ Len(PrintRequest(tcall[t].method, tcall[t].params)) < BUFFER_SIZE
  /\ Len(cJSON_Print(tcall[t].params)) < BUFFER_SIZE
  /\ tcall[t].reg = "echo"
  /\ regHist[tcall[t].method] = {"echo"}

\* C2: every call to an echo handler, with request and response below the
\* buffer limit, returns a value equal to the params that call sent
EchoRoundTrip ==
  \A t \in Threads :
    tpc[t] = "done" /\ EchoCall(t) => tres[t] = tcall[t].params

\* all the calls of the run were issued and every thread has returned
\* from an echo call with its own params
EchoRoundTripsDone ==
  /\ ncalls = cfg.calls
  /\ ncalls >= 2
  /\ \A t \in Threads :
       /\ tpc[t] = "done"
       /\ EchoCall(t)
       /\ tres[t] = tcall[t].params

\* thread t is inside a call whose method has no handler, or a handler
\* that returns no result, on a started server whose registry is settled:
\* no register call is running and none follows start
NoResultCall(t) ==
  /\ mpc = "started"
  /\ tpc[t] \in {"lock", "write", "read"}
  /\ cstate[ClientOf(t)] = "connected"
  /\ "register-first" \in cfg.order
  /\ \A r \in RegThreads : rpc[r] = "idle"
  /\ LookupHandler(methods, tcall[t].method) \in {NoHandler, "none"}

\* C3: on a running server a call whose method has no handler, or whose
\* handler returns no result, eventually returns "no result" to its caller
NoResultReturns ==
  \A t \in Threads :
    NoResultCall(t) ~> ((tpc[t] = "done" /\ tres[t] = NULL) \/ mpc # "started")

\* C4: for a parsed request whose method is not in the registry no handler
\* is invoked and no byte is written; when the handler returns no result
\* no byte is written either
SilentWithoutResult ==
  \A w \in Workers :
    wpc[w] = "release" =>
      /\ FindMethod(methods, wcur[w].method) = 0 =>
           wcur[w].invoked = 0 /\ wcur[w].wrote = 0
      /\ wcur[w].result = NULL => wcur[w].wrote = 0

\* a worker has finished a request whose handler ran and returned no
\* result, and the connection carries no response
HandlerReturnedNothing ==
  \E w \in Workers :
    /\ wpc[w] = "release"
    /\ wcur[w].parsed
    /\ wcur[w].invoked = 1
    /\ wcur[w].result = NULL
    /\ s2c[wcur[w].fd] = <<>>

\* C5: on every exit path of sockrpc_client_call_sync the params passed in
\* is released exactly once: never twice, and once when the call returned
ParamsReleasedOnce ==
  \A t \in Threads :
    /\ prel[t] <= 1
    /\ tpc[t] \in {"lock", "write", "read", "done"} => prel[t] = 1

\* a call returned after cJSON_CreateObject failed, with params released
CallFailedToBuild ==
  \E t \in Threads :
    /\ tpc[t] = "done"
    /\ tcall[t].outcome = "nocreate"
    /\ prel[t] = 1

\* C6: a request whose lookup happens after registrations of its name have
\* released the registry mutex gets the handler of the latest of them
LastRegistrationWins ==
  \A w \in Workers :
    wpc[w] = "unlock" => wcur[w].handler = lastReg[wcur[w].method]

\* a lookup finds the second handler registered under a name
LookupAfterReplace ==
  \E w \in Workers :
    /\ wpc[w] = "unlock"
    /\ Cardinality(regHist[wcur[w].method]) = 2
    /\ wcur[w].handler = lastReg[wcur[w].method]

\* C7: a method whose registration returned before a request for it was
\* read is found by that request's lookup, and every registered name keeps
\* the handler last registered under it
RegistrationVisible ==
  /\ \A w \in Workers :
       wpc[w] = "unlock" /\ wcur[w].known # NoHandler =>
         wcur[w].handler # NoHandler
  /\ (\A r \in RegThreads : reg_mutex # RegOwner(r)) =>
       \A n \in Names :
         lastReg[n] # NoHandler => LookupHandler(methods, n) = lastReg[n]

\* a lookup finds a method that was registered while the workers were
\* running and a call was in flight, next to a method registered earlier
LookupOfLateMethod ==
  \E w \in Workers :
    /\ wpc[w] = "unlock"
    /\ wcur[w].method \in lateReg
    /\ wcur[w].handler = wcur[w].known
    /\ wcur[w].handler # NoHandler
    /\ \E n \in Names \ lateReg : LookupHandler(methods, n) # NoHandler

\* C8: MAX_METHODS distinct names are all stored, a further distinct name
\* is ignored, and a register call on a stored name replaces its handler
\* also when the registry is full
RegisterUpToCapacity ==
  /\ Len(methods) <= MAX_METHODS
  /\ \A r \in RegThreads :
       rpc[r] = "idle" /\ rarg[r].name # NoName /\ rarg[r].handler # NoHandler =>
         IF FindMethod(methods, rarg[r].name) # 0
         THEN LookupHandler(methods, rarg[r].name) = rarg[r].handler
         ELSE Len(methods) = MAX_METHODS

\* the server was started: its workers were created
WasStarted == \A w \in Workers : wpc[w] # "none"

\* C9: after destroy returned on a started server no worker is running,
\* the socket file is absent (a connect fails) and every name copy has
\* been released exactly once
DestroyReleasesAll ==
  mpc = "destroyed" /\ WasStarted =>
    /\ \A w \in Workers : wpc[w] = "exited"
    /\ ~file
    /\ ~Listening
    /\ \A k \in DOMAIN copies : copies[k] = 1

\* a started server was destroyed after one of its names was replaced
DestroyedAfterReplace ==
  /\ mpc = "destroyed"
  /\ WasStarted
  /\ Len(methods) >= 1
  /\ Len(copies) > Len(methods)
  /\ \A k \in DOMAIN copies : copies[k] = 1

\* sockrpc_server_start has bound the socket and has not failed, or has
\* returned with the server running, and destroy has not finished
ServerRunning == mpc \in {"s_listen", "s_run", "s_spawn", "started", "d_join", "d_free"}

\* C10: the socket file exists only while a server on its path is running,
\* also after a start that failed at bind or at listen
FileOnlyWhileRunning == file => ServerRunning

\* sockrpc_server_start has returned without starting the server
StartFailed == mpc = "created" /\ startCalled

\* C11: after a start that failed at socket, bind or listen the running
\* flag is false and no thread was spawned, and destroy (also of a server
\* never started) joins only threads that were created and shuts down and
\* closes only a descriptor the server opened and has not closed
FailedStartThenDestroy ==
  /\ StartFailed =>
       /\ running = 0
       /\ apc = "none"
       /\ \A w \in Workers : wpc[w] = "none"
  /\ misuse = {}

\* C12: no worker invokes a handler while it holds the registry mutex: the
\* mutex is released after the lookup and before the invocation
HandlerRunsUnlocked ==
  \A w \in Workers :
    wpc[w] \in {"invoke", "write", "release"} => reg_mutex # WorkerOwner(w)

\* a worker is about to invoke the handler it looked up while a
\* registering thread holds the registry mutex
RegisterWhileHandlerRuns ==
  \E w \in Workers, r \in RegThreads :
    /\ wpc[w] = "invoke"
    /\ wcur[w].handler # NoHandler
    /\ reg_mutex = RegOwner(r)
    /\ rpc[r] = "unlock"

\* C13: whenever a worker invokes handler h for method m the method table
\* holds the entry (m, h) at that moment, also when m was registered again
\* between the worker's lookup and the invocation
InvokedWhileListed ==
  \A w \in Workers : wcur[w].invoked = 1 => wcur[w].listed

\* C14: the handler a worker invokes for method m, and the result a call
\* to m returns, come from a handler that was registered under the name m
DispatchByName ==
  /\ \A w \in Workers :
       wcur[w].invoked = 1 =>
         /\ wcur[w].handler \in regHist[wcur[w].method]
         /\ wcur[w].result = Apply(wcur[w].handler, wcur[w].params)
  /\ \A t \in Threads :
       tpc[t] = "done" /\ tres[t] # NULL =>
         \E h \in regHist[tcall[t].method] : tres[t] = Apply(h, tcall[t].params)

\* a call returned the result of its method's handler while another name
\* was registered with a different handler
CallAmongOtherMethods ==
  \E t \in Threads, n \in Names :
    /\ tpc[t] = "done"
    /\ tres[t] # NULL
    /\ n # tcall[t].method
    /\ regHist[n] # {}
    /\ regHist[n] \cap regHist[tcall[t].method] = {}

\* C15: the round-robin cursor lies in 0 .. N-1 and has advanced by one
\* modulo N per accepted connection: the k-th accepted connection (from 0)
\* is assigned to worker k mod N, and only that worker watches it
RoundRobin ==
  /\ next_worker \in Workers
  /\ next_worker = naccepted % NUM_WORKERS
  /\ apc \in {"add", "count"} =>
       /\ acur.worker = (naccepted - 1) % NUM_WORKERS
       /\ Watchers(acur.fd) \subseteq {acur.worker}

\* N + 1 connections were accepted: every worker watches one of the first
\* N, and the last one went to worker 0 again
EveryWorkerAssigned ==
  /\ naccepted = NUM_WORKERS + 1
  /\ apc = "count"
  /\ acur.worker = 0
  /\ Cardinality(epoll[0]) = 2
  /\ \A w \in Workers : epoll[w] # {}

\* the workers inside handle_client_request for connection c
Handling(c) ==
  {w \in Workers :
     \/ wpc[w] = "read" /\ Head(wq[w]) = c
     \/ wpc[w] \in {"lookup", "unlock", "invoke", "write", "release"} /\ wcur[w].fd = c}

\* connection c was accepted and epoll_ctl has added it
Added(c) == sfd[c] = "open" /\ ~(apc = "add" /\ acur.fd = c)

\* C16: every accepted connection is in the readiness set of exactly one
\* worker, which is the only worker that handles it, so at most one handler
\* invocation is in progress per connection; the set it is in never changes
OneWorkerPerConnection ==
  /\ [](\A c \in Clients :
          /\ Cardinality(Watchers(c)) <= 1
          /\ Added(c) => Cardinality(Watchers(c)) = 1
          /\ Cardinality(Handling(c)) <= 1
          /\ Handling(c) \subseteq Watchers(c))
  /\ [][\A c \in Clients : Watchers(c) # {} => Watchers(c)' = Watchers(c)]_vars

\* two workers each watch a connection, one of them watches two, and a
\* handler is about to be invoked for one of the connections
ConnectionsSpread ==
  \E c, d \in Clients, w \in Workers :
    /\ c # d
    /\ Watchers(c) # {}
    /\ Watchers(d) # {}
    /\ Watchers(c) # Watchers(d)
    /\ Cardinality(epoll[w]) = 2
    /\ \E v \in Handling(c) : wpc[v] = "invoke" /\ wcur[v].handler # NoHandler

\* C17: calls on one client are observed in issue order: the value a call
\* returns is read from the response to its own request and never from
\* bytes, or leftover bytes, of the response to another call on that client
OwnResponseOnly ==
  \A t \in Threads : ~tmix[t]

\* C18: sockrpc_client_create returns no handle when the connect to the
\* server path fails: no client handle exists whose connection was refused
NoHandleWithoutConnection ==
  \A c \in Clients : cstate[c] # "unconnected"

\* C19: sockrpc_server_destroy closes every connection the server
\* accepted: once it has returned, no accepted descriptor is still open on
\* the server side
AcceptedClosedByDestroy ==
  mpc = "destroyed" => \A c \in Clients : sfd[c] # "open"

\* C20: sockrpc_server_destroy closes every worker's readiness set: once it
\* has returned, the epoll descriptor of each of the NUM_WORKERS slots is
\* closed
ReadinessSetsClosedByDestroy ==
  mpc = "destroyed" => \A w \in Workers : epoll_fd[w] = "closed"

\* C21: a sync call writes its entire serialized request before it reads
\* the response: a thread that waits for the response on a connection that
\* takes bytes has put every byte of its request on the socket
WholeRequestWritten ==
  \A t \in Threads :
    (tpc[t] = "read" /\ CanSend(ClientOf(t))) => tsent[t]

\* the async calls whose task is at one of the positions pcs
TasksAt(pcs) == {t \in Threads : tcall[t].mode = "async" /\ tpc[t] \in pcs}

\* C22: the result of the inner sync call of an async call is handled
\* exactly once: a given callback is invoked exactly once with it, also
\* when it is "no result", otherwise a present result is released; then
\* the method copy and the task record are released exactly once
AsyncResultHandledOnce ==
  /\ \A t \in TasksAt({"done"}) :
       /\ tcall[t].cb => cbcount[t] = 1 /\ resrel[t] = 0
       /\ ~tcall[t].cb => cbcount[t] = 0 /\ resrel[t] = (IF tres[t] # NULL THEN 1 ELSE 0)
       /\ taskfree[t] = 1
  /\ \A t \in TasksAt({"task", "lock", "write", "read", "deliver"}) :
       cbcount[t] = 0 /\ resrel[t] = 0 /\ taskfree[t] = 0

\* a task with a callback ended whose sync call returned "no result"
CallbackGotNoResult ==
  \E t \in TasksAt({"done"}) : tcall[t].cb /\ tres[t] = NULL

\* C23: sockrpc_client_call_async returns to its caller without waiting for
\* the client mutex, the request write or the response: once the task is
\* spawned the return is never held up
AsyncReturnsAtOnce ==
  \A t \in Threads : async_pc[t] = "spawned" => ENABLED AsyncReturn(t)

\* a call_async has returned while its task waits for the mutex that
\* another call on the same client holds, blocked in its read
ReturnedWhileMutexHeld ==
  \E t \in TasksAt({"lock"}) :
    /\ async_pc[t] = "returned"
    /\ \E u \in Threads \ {t} :
         /\ ClientOf(u) = ClientOf(t)
         /\ cmutex[ClientOf(t)] = u
         /\ tpc[u] = "read"
         /\ ~ReadReturns(ClientOf(u))

\* C24: sockrpc_client_destroy cancels pending async calls: after it
\* returns no callback of a pending async call is invoked and no task uses
\* the socket or the mutex of the destroyed client
DestroyCancelsTasks ==
  late = {}

\* the bytes are one complete request as cJSON_Print writes it
WellFormed(buf) ==
  LET req == ParseRequest(buf)
  IN req.ok /\ PrintRequest(req.method, req.params) = buf

\* worker w takes the step that reads its next ready connection
ReadsNow(w) ==
  /\ wpc[w] = "read"
  /\ wpc'[w] # "read" \/ wq'[w] # wq[w]

\* C25: a well-formed request of exactly BUFFER_SIZE - 1 bytes is read
\* completely and parsed; one of BUFFER_SIZE bytes or more is cut to
\* BUFFER_SIZE - 1 bytes, fails to parse and is dropped with no handler
\* invoked; the worker never stores more than BUFFER_SIZE - 1 bytes
BufferBoundary ==
  [][\A w \in Workers :
       ReadsNow(w) =>
         LET fd == Head(wq[w])
             avail == c2s[fd]
             taken == Len(avail) - Len(c2s'[fd])
         IN /\ taken <= BUFFER_SIZE - 1
            /\ (WellFormed(avail) /\ Len(avail) = BUFFER_SIZE - 1) =>
                 /\ taken = Len(avail)
                 /\ wpc'[w] = "lookup"
                 /\ wcur'[w].parsed
                 /\ PrintRequest(wcur'[w].method, wcur'[w].params) = avail
            /\ (WellFormed(avail) /\ Len(avail) >= BUFFER_SIZE) =>
                 /\ taken = BUFFER_SIZE - 1
                 /\ wpc'[w] # "lookup"
                 /\ wcur'[w] = wcur[w]]_vars

\* a request of BUFFER_SIZE bytes was cut and dropped: its last byte is
\* left in the socket, every worker is back in its loop, no handler ran
OversizedRequestDropped ==
  \E t \in Threads :
    /\ tpc[t] = "read"
    /\ tsent[t]
    /\ Len(PrintRequest(tcall[t].method, tcall[t].params)) = BUFFER_SIZE
    /\ c2s[ClientOf(t)] = <<RC>>
    /\ \A w \in Workers : wpc[w] = "loop" /\ wcur[w].invoked = 0

\* worker w has handled the request of a call to a method that is not
\* registered: the request was taken from the connection, which w watches,
\* and w is neither about to read it nor busy with it
UnknownHandledBy(w) ==
  \E t \in Threads :
    LET c == ClientOf(t)
    IN /\ tpc[t] = "read"
       /\ tsent[t]
       /\ LookupHandler(methods, tcall[t].method) = NoHandler
       /\ c2s[c] = <<>>
       /\ c \in epoll[w]
       /\ c \notin ready[w]
       /\ \A i \in DOMAIN wq[w] : wq[w][i] # c
       /\ wcur[w].fd # c

\* thread u has sent a request for a registered method on a connection
\* that worker w watches
KnownSentTo(u, w) ==
  /\ tpc[u] = "read"
  /\ tsent[u]
  /\ LookupHandler(methods, tcall[u].method) = "echo"
  /\ ClientOf(u) \in epoll[w]

\* C26: after a worker handled a request for an unknown method the server
\* still serves: a later request for a registered method on a connection
\* of that worker is dispatched and answered (while the server runs)
ServesAfterUnknown ==
  (\E w \in Workers, u \in Threads : UnknownHandledBy(w) /\ KnownSentTo(u, w))
    ~> \/ \E w \in Workers, u \in Threads :
            /\ UnknownHandledBy(w)
            /\ ClientOf(u) \in epoll[w]
            /\ tpc[u] = "done"
            /\ tres[u] = tcall[u].params
       \/ mpc # "started"

\* a worker that has handled an unknown method is handed a request for a
\* registered method, not yet read, on another of its connections
KnownAfterUnknown ==
  \E w \in Workers, u \in Threads :
    /\ UnknownHandledBy(w)
    /\ KnownSentTo(u, w)
    /\ c2s[ClientOf(u)] # <<>>
    /\ mpc = "started"

\* C27: the server hands ownership of params to the handler: with a
\* handler that releases params itself, the params tree of a dispatched
\* request is released exactly once on the server side
ParamsOwnedByHandler ==
  \A w \in Workers : wcur[w].freed <= 1

\* thread t is inside a call: a sync call or the task of an async call
InCall(t) == tpc[t] \in {"task", "lock", "write", "read", "deliver"}

\* the call of thread t names a method that is registered with a handler
\* that returns a value
ToRegistered(t) == LookupHandler(methods, tcall[t].method) = "echo"

\* what a finished call leaves: the echoed value or "no result", params
\* released once, and for a task its callback invoked once
CompletedWell(t) ==
  /\ tres[t] \in {NULL, tcall[t].params}
  /\ prel[t] = 1
  /\ tcall[t].mode = "async" => cbcount[t] = 1 /\ taskfree[t] = 1

\* a worker releases the request and the result it handles, neither more
\* than once
ServerReleased(w) ==
  /\ wcur[w].freed <= 1
  /\ wcur[w].rfreed <= 1
  /\ (wpc[w] = "loop" /\ wcur[w].rfreed = 1) => wcur[w].freed = 1

\* C28: with several threads mixing sync and async calls to a registered
\* handler that returns a value, every call eventually completes (sync
\* calls return, callbacks fire, no async call stays pending), each with a
\* well-formed result or "no result", and params and results are released
StressCompletes ==
  /\ [](\A t \in Threads : tpc[t] = "done" => CompletedWell(t))
  /\ [](\A w \in Workers : ServerReleased(w))
  /\ \A t \in Threads : (InCall(t) /\ ToRegistered(t)) ~> tpc[t] = "done"

\* every sync and async call of the run was issued and has completed with
\* the echoed value, at least one of them as an async task
StressRunDone ==
  /\ ncalls = cfg.calls
  /\ nasync = cfg.asyncs
  /\ \A t \in Threads : tpc[t] = "done" /\ tres[t] = tcall[t].params /\ tres[t] # NULL
  /\ \E t \in Threads : tcall[t].mode = "async" /\ cbcount[t] = 1

\* worker w takes a step of write_all on the request it handles
WritesNow(w) ==
  /\ wpc[w] = "write"
  /\ wpc'[w] # "write" \/ wcur'[w].wrote # wcur[w].wrote

\* C29: for a parsed request that names a registered method the worker
\* invokes the handler found exactly once; a returned value is written
\* whole to the connection of the request, over as many writes as it
\* takes, and then released exactly once; the parsed request is released
\* exactly once
DispatchedOnceAnsweredWhole ==
  /\ [](\A w \in Workers :
          /\ wcur[w].invoked <= 1
          /\ wcur[w].freed <= 1
          /\ wcur[w].rfreed <= 1
          /\ wpc[w] \in {"write", "release"} =>
               /\ wcur[w].invoked = (IF wcur[w].handler # NoHandler THEN 1 ELSE 0)
               /\ wcur[w].freed = 0
          /\ wpc[w] = "write" => wcur[w].rfreed = 0
          /\ wpc[w] = "release" =>
               /\ wcur[w].wrote = Len(Response(wcur[w]))
               /\ wcur[w].rfreed = ResultFrees(wcur[w]))
  /\ [][\A w \in Workers :
          /\ WritesNow(w) =>
               \A c \in Clients :
                 s2c'[c] = IF c = wcur[w].fd
                           THEN s2c[c] \o SubSeq(Response(wcur[w]), wcur[w].wrote + 1,
                                                 wcur'[w].wrote)
                           ELSE s2c[c]
          /\ (wpc[w] = "release" /\ wpc'[w] # "release") => wcur'[w].freed = 1]_vars

\* a worker has written a part of the value its handler returned and is
\* about to write the rest
ResponsePartlyWritten ==
  \E w \in Workers :
    /\ wpc[w] = "write"
    /\ wcur[w].invoked = 1
    /\ wcur[w].result # NULL
    /\ 0 < wcur[w].wrote
    /\ wcur[w].wrote < Len(Response(wcur[w]))

\* C30: bytes that do not parse are dropped: the worker invokes no
\* handler and writes nothing, its connection counter and the registry
\* stay as they are, and the connection stays in its readiness set
MalformedDropped ==
  [][\A w \in Workers :
       ReadsNow(w) =>
         LET fd == Head(wq[w])
             n == Len(c2s[fd]) - Len(c2s'[fd])
             text == SubSeq(c2s[fd], 1, n)
         IN (n > 0 /\ ~ParseRequest(text).ok) =>
              /\ wcur'[w] = wcur[w]
              /\ wpc'[w] \in {"loop", "read"}
              /\ s2c' = s2c
              /\ num_connections' = num_connections
              /\ methods' = methods
              /\ epoll' = epoll
              /\ fd \in epoll'[w]
              /\ sfd'[fd] = "open"]_vars

\* part of a request reached the server and was dropped: nothing is left
\* to read, nothing was answered, the connection is still watched and
\* counted, and the caller waits
PartialRequestDropped ==
  \E t \in Threads, w \in Workers :
    LET c == ClientOf(t)
    IN /\ tpc[t] = "read"
       /\ ~tsent[t]
       /\ CanSend(c)
       /\ c2s[c] = <<>>
       /\ s2c[c] = <<>>
       /\ stale[c] = 0
       /\ c \in epoll[w]
       /\ c \notin ready[w]
       /\ wpc[w] = "loop"
       /\ num_connections[w] = 1

\* C31: once sockrpc_server_destroy has set running to 0, every worker
\* leaves its loop and the joins complete, so destroy goes on to release
\* the server, also when a peer has stopped reading a response
DestroyReturns ==
  (mpc = "d_join") ~> (mpc \in {"d_free", "destroyed", "crashed"})

\* C32: when sockrpc_server_start has returned after succeeding the socket
\* is bound and listening, so that a connect succeeds, and running is 1;
\* worker threads exist only once running was set on a listening socket,
\* and none finds running = 0 and leaves its loop before destroy is called
StartedReady ==
  /\ mpc = "started" => Listening /\ running = 1
  /\ \A w \in Workers :
       /\ wpc[w] # "none" => lsock \in {"listening", "shut", "closed"}
       /\ wpc[w] # "none" /\ ServerAlive => running = 1
       /\ wpc[w] = "exited" => ~ServerAlive

\* start has returned, a client has connected and a worker has gone
\* through its loop test to handle the request, before any destroy
WorkerServesAfterStart ==
  /\ mpc = "started"
  /\ \E c \in Clients : cstate[c] = "connected"
  /\ \E w \in Workers : wpc[w] = "invoke"

\* C33: a worker's connection counter is never negative, under every
\* interleaving of the accept thread's increment (made after the
\* connection was added to the readiness set) with the worker's decrement
\* on an empty read
CounterNeverNegative == \A w \in Workers : num_connections[w] >= 0

\* C34: under any interleaving of concurrent sockrpc_server_register
\* calls the method count never exceeds MAX_METHODS, so that no entry is
\* written outside methods[0 .. MAX_METHODS-1]
RegistryWithinTable == method_count <= MAX_METHODS

\* C35: once sockrpc_server_destroy has returned and released the server
\* no thread started by the server is still running: the workers and the
\* detached accept thread have left their loops, so none reads or writes
\* the server's state or assigns a connection to a worker
NoThreadAfterDestroy ==
  mpc = "destroyed" =>
    /\ apc \in {"none", "exited"}
    /\ \A w \in Workers : wpc[w] \in {"none", "exited"}

\* C36: a request that parses as JSON but has no "method" member is
\* handled without reading the absent value: the worker does not go past
\* line 866 with it (no lookup, no handler, nothing written) and does not
\* fault
MethodlessDropped ==
  \A w \in Workers :
    /\ wcur[w].parsed => wcur[w].method # NoName
    /\ wpc[w] # "crashed"

\* C37: in sockrpc_client_call_sync the index at which the terminator is
\* stored after the read is inside the receive buffer, for every number
\* of bytes the read can return
TerminatorInBuffer ==
  \A t \in Threads :
    (tpc[t] = "read" /\ ReadReturns(ClientOf(t))) =>
      ReadCount(ClientOf(t)) < BUFFER_SIZE

\* C38: a request below the buffer limit is dispatched however its bytes
\* reach the server: once the whole request of a call to a registered
\* handler has arrived and the running server has taken every byte of it
\* and is idle again, the call has its response
SegmentsDispatched ==
  \A t \in Threads :
    LET c == ClientOf(t)
    IN (/\ tpc[t] = "read"
        /\ tsent[t]
        /\ Len(PrintRequest(tcall[t].method, tcall[t].params)) < BUFFER_SIZE
        /\ tcall[t].reg = "echo"
        /\ mpc = "started"
        /\ c2s[c] = <<>>
        /\ \E w \in Workers : c \in epoll[w]
        /\ apc # "count"
        /\ \A w \in Workers : wpc[w] = "loop" /\ c \notin ready[w])
       => s2c[c] # <<>>

\* C39: every mutex an operation acquires is released before the operation
\* returns, on every path: a mutex is owned only by a thread that is
\* between the lock and the unlock of the section that took it.  The
\* cursor mutex is free outside select_worker, a worker mutex is owned
\* only by the accept thread at its counter update, the registry mutex
\* only by a thread inside the locked part of register or of the lookup,
\* a client mutex only by a thread between the write and the read of its
\* call.
MutexesReleased ==
  /\ lb_mutex = Free
  /\ \A w \in Workers :
       wmutex[w] # Free =>
         wmutex[w] = AcceptOwner /\ apc = "locked" /\ acur.worker = w
  /\ \A r \in RegThreads : reg_mutex = RegOwner(r) => rpc[r] = "unlock"
  /\ \A w \in Workers : reg_mutex = WorkerOwner(w) => wpc[w] = "unlock"
  /\ \A c \in Clients :
       cmutex[c] # 0 =>
         ClientOf(cmutex[c]) = c /\ tpc[cmutex[c]] \in {"write", "read"}

\* a call has returned after its read failed on a client that never
\* connected, a registration has replaced an entry after another appended
\* it, and every mutex they took is free
ReturnedOnEveryPath ==
  /\ \E t \in Threads :
       /\ tpc[t] = "done"
       /\ tcall[t].outcome = "ok"
       /\ tcall[t].mode = "sync"
       /\ cstate[ClientOf(t)] = "unconnected"
       /\ cmutex[ClientOf(t)] = 0
  /\ Len(methods) = 1
  /\ Len(copies) = 2
  /\ \A r \in RegThreads : rpc[r] = "idle"
  /\ reg_mutex = Free

\* C40: no thread holds two of the library's mutexes (registry, cursor,
\* per-worker, client) at the same time, so no thread waits for one mutex
\* while it keeps another
OneMutexAtATime ==
  /\ \A o \in {AcceptOwner} \cup {RegOwner(r) : r \in RegThreads}
                            \cup {WorkerOwner(w) : w \in Workers} :
       (IF reg_mutex = o THEN 1 ELSE 0) + (IF lb_mutex = o THEN 1 ELSE 0)
         + Cardinality({w \in Workers : wmutex[w] = o}) <= 1
  /\ \A t \in Threads : Cardinality({c \in Clients : cmutex[c] = t}) <= 1

\* three mutexes are held at once, each by another thread: a worker mutex
\* by the accept thread, the registry mutex by a worker, a client mutex by
\* a calling thread
ThreeMutexesHeld ==
  /\ apc = "locked"
  /\ wmutex[acur.worker] = AcceptOwner
  /\ \E w \in Workers : reg_mutex = WorkerOwner(w)
  /\ \E c \in Clients : cmutex[c] # 0

====
